---------------------------- MODULE Spec2Model ----------------------------
(***************************************************************************)
(* A model of django-cachecow (cachecow/cache.py, cachecow/intpacker.py):  *)
(* key derivation (make_key, _make_key), the integer packer (pack_int,     *)
(* unpack_int), namespace generations (_get_namespace_prefix,              *)
(* invalidate_namespace) and the memoizing decorators cached_function and  *)
(* cached_view with their delete_cache member, running against a shared    *)
(* key-value store (django.core.cache.cache).                              *)
(*                                                                         *)
(* Byte strings are sequences of byte values 0..255; unicode text is a     *)
(* sequence of code points.                                                *)
(***************************************************************************)
EXTENDS Integers, Sequences, FiniteSets, TLC

(***************************************************************************)
(* Program constants.                                                      *)
(***************************************************************************)
\* cache.py:22  MAX_KEY_LENGTH = 250
MAX_KEY_LENGTH == 250

\* intpacker.py:12  _BASE = len(_ALPHABET)
_BASE == 64

\* hashlib.md5(key).hexdigest() is 32 hexadecimal digits (cache.py:126)
MD5_HEX_LEN == 32

(***************************************************************************)
(* Bounds of the model.                                                    *)
(***************************************************************************)
\* largest reading of the clock that seeds generations
MaxClock == 3
\* number of atoms of the long list input (range(n) of tests.py:24)
LongAtoms == 100
\* length of the long text atom
LongText == 260
\* every integer of magnitude up to MaxPack is packed and unpacked
MaxPack == 70
\* the while loop of pack_int is followed for at most MaxSymbols symbols
MaxSymbols == 8
\* a keyed view serves at most MaxServed requests of authenticated users
MaxServed == 3

(***************************************************************************)
(* Bytes and text.                                                         *)
(***************************************************************************)
RECURSIVE Concat(_)
\* ''.join(seq of byte strings), halving the sequence
Concat(ss) ==
    IF ss = <<>> THEN <<>>
    ELSE IF Len(ss) = 1 THEN ss[1]
    ELSE LET mid == Len(ss) \div 2
         IN  Concat(SubSeq(ss, 1, mid)) \o Concat(SubSeq(ss, mid + 1, Len(ss)))

\* sep.join(seq of byte strings)
Join(sep, ss) ==
    Concat([i \in 1..Len(ss) |-> IF i = 1 THEN ss[i] ELSE sep \o ss[i]])

Reverse(s) == [i \in 1..Len(s) |-> s[Len(s) + 1 - i]]

\* u.encode('utf8') of one code point (cache.py:66)
Utf8Char(cp) ==
    IF cp < 128 THEN <<cp>>
    ELSE IF cp < 2048 THEN <<192 + (cp \div 64), 128 + (cp % 64)>>
    ELSE <<224 + (cp \div 4096), 128 + ((cp \div 64) % 64), 128 + (cp % 64)>>

\* u.encode('utf8') of a text (cache.py:66)
Utf8(u) == Concat([i \in 1..Len(u) |-> Utf8Char(u[i])])

RECURSIVE DecDigits(_)
\* decimal digits of a natural number, most significant first
DecDigits(n) ==
    IF n < 10 THEN <<48 + n>> ELSE DecDigits(n \div 10) \o <<48 + (n % 10)>>

\* unicode(n) of an integer (cache.py:66)
IntText(n) == IF n < 0 THEN <<45>> \o DecDigits(-n) ELSE DecDigits(n)

(***************************************************************************)
(* intpacker.py                                                            *)
(***************************************************************************)
\* a faulty alphabet that begins with the lowercase letters.
\* C21_SmallIntsOneSymbol fails with it.
_ALPHABET_LowerFirst ==
    [i \in 1..26 |-> 96 + i] \o [i \in 1..26 |-> 64 + i]
        \o [i \in 1..10 |-> 47 + i] \o <<95, 61>>

\* _ALPHABET: 'A'..'Z', 'a'..'z', '0'..'9', '_', '=' (intpacker.py:7-10)
_ALPHABET ==
    [i \in 1..26 |-> 64 + i] \o [i \in 1..26 |-> 96 + i]
        \o [i \in 1..10 |-> 47 + i] \o <<95, 61>>

RECURSIVE PackLoop(_)
\* the while loop of pack_int: the symbols in the order they are appended
PackLoop(n) ==
    LET q == n \div _BASE
        r == n % _BASE
    IN  IF q = 0 THEN <<_ALPHABET[r + 1]>>
        ELSE IF q = -1 THEN <<_ALPHABET[r + 1], 45>>
        ELSE <<_ALPHABET[r + 1]>> \o PackLoop(q)

\* pack_int(n) (intpacker.py:14-24)
pack_int(n) == Reverse(PackLoop(n))

\* _ALPHABET_REVERSE[c], or -1 when c is no key of it: KeyError
\* (intpacker.py:11)
AlphabetReverse(c) ==
    IF \E i \in 1..Len(_ALPHABET) : _ALPHABET[i] = c
    THEN (CHOOSE i \in 1..Len(_ALPHABET) : _ALPHABET[i] = c) - 1
    ELSE -1

RECURSIVE UnpackLoop(_, _, _)
\* the for loop of unpack_int from the i-th symbol of s on, n so far
UnpackLoop(s, i, n) ==
    IF i > Len(s) THEN [exc |-> FALSE, n |-> n]
    ELSE IF AlphabetReverse(s[i]) < 0 THEN [exc |-> TRUE, n |-> n]
    ELSE UnpackLoop(s, i + 1, n * _BASE + AlphabetReverse(s[i]))

\* unpack_int(s) (intpacker.py:26-30).  exc: KeyError was raised.
unpack_int(s) == UnpackLoop(s, 1, 0)

(***************************************************************************)
(* Key inputs (the objects handed to make_key).  Every object is a record  *)
(* of one shape; t names the Python type and the other fields hold the     *)
(* value: n an integer or boolean flag, s the code points of a text, d the *)
(* (key, value) items of a dict in iteration order, l the elements of a    *)
(* list or tuple.                                                          *)
(***************************************************************************)
NoneObj == [t |-> "none", n |-> 0, s |-> <<>>, d |-> <<>>, l |-> <<>>]
IntObj(i) == [t |-> "int", n |-> i, s |-> <<>>, d |-> <<>>, l |-> <<>>]
BoolObj(b) == [t |-> "bool", n |-> IF b THEN 1 ELSE 0, s |-> <<>>, d |-> <<>>, l |-> <<>>]
TextObj(u) == [t |-> "text", n |-> 0, s |-> u, d |-> <<>>, l |-> <<>>]
DictObj(items) == [t |-> "dict", n |-> 0, s |-> <<>>, d |-> items, l |-> <<>>]
ListObj(elems) == [t |-> "list", n |-> 0, s |-> <<>>, d |-> <<>>, l |-> elems]
\* an instance of the class named cls; pk is <<>> or <<the value of its pk>>
InstObj(cls, pk) == [t |-> "inst", n |-> 0, s |-> cls, d |-> <<>>, l |-> pk]
\* a callable that returns its i-th positional argument
FnObj(i) == [t |-> "fn", n |-> i, s |-> <<>>, d |-> <<>>, l |-> <<>>]

\* timedelta(microseconds=us)
TimedeltaObj(us) == [t |-> "timedelta", n |-> us, s |-> <<>>, d |-> <<>>, l |-> <<>>]
\* def ns_func(foo): return (foo, ns_key) (tests.py:136-137)
NsFuncObj(ns_key) == [t |-> "nsfn", n |-> 0, s |-> <<>>, d |-> <<>>, l |-> <<ns_key>>]

\* an HttpRequest: its method, the number of messages waiting for its user
\* and the items of request.GET
RequestObj(method, msgs, items) ==
    [t |-> "request", n |-> msgs, s |-> method, d |-> items, l |-> <<>>]
\* an HttpResponse: its status code, whether its Cache-Control and its
\* Pragma header hold 'no-cache', and its body
ResponseObj(status, cc, pragma, body) ==
    [t |-> "response", n |-> status, s |-> body, d |-> <<>>,
     l |-> <<BoolObj(cc), BoolObj(pragma)>>]

\* what val = func(*args, **kwargs) leaves behind when func raises
RaisedObj == [t |-> "raised", n |-> 0, s |-> <<>>, d |-> <<>>, l |-> <<>>]

\* an HttpRequest with no message waiting and an empty request.GET, whose
\* request.user is anonymous (user is <<>>) or authenticated with the id
\* user[1]
UserRequestObj(method, user) ==
    [t |-> "request", n |-> 0, s |-> method, d |-> <<>>, l |-> user]

\* callable(obj) (cache.py:227)
IsCallable(obj) == obj.t \in {"fn", "nsfn"}

\* Python truth value of an object (`if namespace:`, `key or ...`, `not ns_key`)
Truthy(x) ==
    CASE x.t = "none" -> FALSE
      [] x.t = "int"  -> x.n # 0
      [] x.t = "bool" -> x.n # 0
      [] x.t = "text" -> x.s # <<>>
      [] x.t = "dict" -> x.d # <<>>
      [] x.t = "list" -> x.l # <<>>
      [] OTHER -> TRUE

RECURSIVE Repr(_)
\* repr(x), as unicode(container) shows the elements of a container
Repr(x) ==
    CASE x.t = "none" -> <<78, 111, 110, 101>>
      [] x.t = "int"  -> IntText(x.n)
      [] x.t = "bool" -> IF x.n = 1 THEN <<84, 114, 117, 101>>
                                    ELSE <<70, 97, 108, 115, 101>>
      [] x.t = "text" -> <<39>> \o Utf8(x.s) \o <<39>>
      [] x.t = "dict" ->
            <<123>> \o Join(<<44, 32>>,
                            [i \in 1..Len(x.d) |->
                                Repr(x.d[i][1]) \o <<58, 32>> \o Repr(x.d[i][2])])
                    \o <<125>>
      [] x.t = "list" ->
            <<91>> \o Join(<<44, 32>>, [i \in 1..Len(x.l) |-> Repr(x.l[i])])
                   \o <<93>>
      \* <Baz object>, <function>: the address part is left out
      [] x.t = "inst" -> <<60>> \o Utf8(x.s) \o <<62>>
      [] x.t \in {"fn", "nsfn"} -> <<60, 102, 110, 62>>
      \* <WSGIRequest GET>: the method stands for the rest of the text
      [] x.t = "request" ->
            <<60, 87, 83, 71, 73, 82, 101, 113, 117, 101, 115, 116, 32>>
                \o Utf8(x.s) \o <<62>>
      [] x.t = "response" -> Utf8(x.s)
      \* str(timedelta) is not used by the model: the seconds only
      [] x.t = "timedelta" -> IntText(x.n)

\* to_string = lambda x: unicode(x).encode('utf8') (cache.py:66)
to_string(x) ==
    CASE x.t = "text" -> Utf8(x.s)
      [] OTHER -> Repr(x)

\* a faulty table of control codes without DEL and the C1 controls.
\* C10_NoControlBytes fails with it.
InControlCodeChars_C0Only(b) == b <= 32

\* membership in _CONTROL_CODE_CHARS (cache.py:32-34)
InControlCodeChars(b) == b <= 32 \/ b = 127 \/ (b >= 128 /\ b <= 159)

\* s.translate(_ALL_CHARS, _CONTROL_CODE_CHARS) (cache.py:78)
StripControl(s) == SelectSeq(s, LAMBDA b : ~InControlCodeChars(b))

\* a faulty iterator that expands the top-level sequence only.
\* C23_FlattenOneLevel fails with it.
_key_arg_iterator_Shallow(key_args, max_depth) ==
    IF key_args.t = "list" THEN key_args.l ELSE <<key_args>>

RECURSIVE _key_arg_iterator(_, _)
\* _key_arg_iterator(key_args, max_depth): the sequence of yielded items
_key_arg_iterator(key_args, max_depth) ==
    IF max_depth >= 0 /\ key_args.t # "text"
    THEN CASE key_args.t = "list" ->
                Concat([i \in 1..Len(key_args.l) |->
                          _key_arg_iterator(key_args.l[i], max_depth - 1)])
           [] key_args.t = "dict" ->
                \* iterating a dict yields its keys
                Concat([i \in 1..Len(key_args.d) |->
                          _key_arg_iterator(key_args.d[i][1], max_depth - 1)])
           [] OTHER -> <<key_args>>     \* TypeError: not an iterable
    ELSE <<key_args>>

\* _format_key_arg(arg) (cache.py:61-78)
_format_key_arg(arg) ==
    IF arg.t = "none" THEN <<>>
    ELSE IF arg.t = "dict"
    THEN StripControl(Join(<<44>>,
            [i \in 1..Len(arg.d) |->
                to_string(arg.d[i][1]) \o <<58>> \o to_string(arg.d[i][2])]))
    ELSE StripControl(to_string(arg))

RECURSIVE WeightedSum(_, _, _)
\* the sum of s[i] * (i % 251 + 1) for i in lo..hi, halving the range
WeightedSum(s, lo, hi) ==
    IF lo > hi THEN 0
    ELSE IF lo = hi THEN s[lo] * ((lo % 251) + 1)
    ELSE LET mid == (lo + hi) \div 2
         IN  WeightedSum(s, lo, mid) + WeightedSum(s, mid + 1, hi)

\* a checksum of the content of s
Checksum(s) == (WeightedSum(s, 1, Len(s)) + 7919 * Len(s)) % 65521

HexDigit(v) == IF v < 10 THEN 48 + v ELSE 87 + v

\* hashlib.md5(key).hexdigest(): a digest of MD5_HEX_LEN hexadecimal digits
\* that depends on the content of key only (cache.py:126)
Md5HexDigest(key) ==
    LET h == Checksum(key)
    IN  [i \in 1..MD5_HEX_LEN |-> HexDigit(((h \div i) + 7 * i + h) % 16)]

\* s[:n] for n >= 0
Take(s, n) == SubSeq(s, 1, IF n < Len(s) THEN n ELSE Len(s))

\* the dot-joined form of obj (cache.py:112)
JoinedKey(obj) ==
    LET items == _key_arg_iterator(obj, 1)
    IN  Join(<<46>>, [i \in 1..Len(items) |-> _format_key_arg(items[i])])

\* a faulty make_key that cuts the digest to MAX_KEY_LENGTH, whatever the
\* length of the prefix.  C9_KeyLengthBounded fails with it.
make_key_IgnoresPrefix(obj, prefix) ==
    LET key == JoinedKey(obj)
    IN  IF Len(prefix) + Len(key) > MAX_KEY_LENGTH
        THEN IF Len(prefix) >= MAX_KEY_LENGTH
             THEN [exc |-> TRUE, key |-> <<>>]
             ELSE [exc |-> FALSE,
                   key |-> Take(Md5HexDigest(key), MAX_KEY_LENGTH)]
        ELSE [exc |-> FALSE, key |-> key]

\* make_key(obj) under a backend whose cache.make_key('') is prefix
\* (cache.py:80-127).  exc: the Exception of cache.py:121 was raised.
make_key(obj, prefix) ==
    LET key == JoinedKey(obj)
    IN  IF Len(prefix) + Len(key) > MAX_KEY_LENGTH
        THEN IF Len(prefix) >= MAX_KEY_LENGTH
             THEN [exc |-> TRUE, key |-> <<>>]
             ELSE [exc |-> FALSE,
                   key |-> Take(Md5HexDigest(key), MAX_KEY_LENGTH - Len(prefix))]
        ELSE [exc |-> FALSE, key |-> key]

(***************************************************************************)
(* The memoized producers and their callers.                               *)
(***************************************************************************)
\* 'cached_func' (cache.py:136)
CachedFuncTag == <<99, 97, 99, 104, 101, 100, 95, 102, 117, 110, 99>>
\* 'foospace' (tests.py:105)
Foospace == TextObj(<<102, 111, 111, 115, 112, 97, 99, 101>>)
\* 'nonexistent_namespace' (tests.py:130), shortened to 'nonexistent'
Nonexistent == TextObj(<<110, 111, 110, 101, 120, 105, 115, 116, 101, 110, 116>>)

Producers ==
    {"f", "g", "h", "t", "u", "k", "n", "z", "e", "q", "r", "m", "v",
     "x", "y", "c", "w"}

\* 'profile'
Profile == <<112, 114, 111, 102, 105, 108, 101>>

\* 'test_lambda_keys' (tests.py:169)
TestLambdaKeys ==
    <<116, 101, 115, 116, 95, 108, 97, 109, 98, 100, 97, 95, 107, 101, 121, 115>>

\* a producer decorated with @cached_function(timeout, key, namespace)
\* (cache.py:278)
Decorated(name, timeout, key, namespace, code) ==
    [name |-> name, method |-> FALSE, key |-> key, namespace |-> namespace,
     timeout |-> timeout, code |-> code]

\* The decorated functions: f and g are tests.py:105-111 (my_func and
\* my_other_func, both under namespace 'foospace'), h is the method
\* Baz.my_func of tests.py:48-51 (no namespace).  code stands for
\* func.__code__.__hash__().
\* t and u have a negative timeout, an int and a timedelta; k is get_age
\* of tests.py:169-171, whose key holds the callable thing_key; n, z and e
\* return None and falsy values; q and r are memoized under the falsy
\* namespaces 0 and '', m under the namespace function of tests.py:136-141.
ProducerOf(id) ==
    CASE id = "f" -> [name |-> <<109, 121, 95, 102, 117, 110, 99>>,
                      method |-> FALSE, key |-> NoneObj,
                      namespace |-> Foospace, timeout |-> NoneObj,
                      code |-> 12345]
      [] id = "g" -> [name |-> <<109, 121, 95, 111, 116, 104, 101, 114>>,
                      method |-> FALSE, key |-> NoneObj,
                      namespace |-> Foospace, timeout |-> NoneObj,
                      code |-> -200]
      [] id = "h" -> [name |-> <<109, 121, 95, 102, 117, 110, 99>>,
                      method |-> TRUE, key |-> NoneObj,
                      namespace |-> NoneObj, timeout |-> NoneObj,
                      code |-> 77]
      [] id = "t" -> Decorated(<<116>>, IntObj(-1), NoneObj, NoneObj, 101)
      [] id = "u" -> Decorated(<<117>>, TimedeltaObj(-90000000), NoneObj,
                               Foospace, 102)
      [] id = "k" -> Decorated(<<103, 101, 116, 95, 97, 103, 101>>, NoneObj,
                               ListObj(<<TextObj(TestLambdaKeys), FnObj(1)>>),
                               NoneObj, 103)
      [] id = "n" -> Decorated(<<110>>, NoneObj, NoneObj, NoneObj, 104)
      [] id = "z" -> Decorated(<<122>>, NoneObj, NoneObj, NoneObj, 105)
      [] id = "e" -> Decorated(<<101>>, NoneObj, NoneObj, NoneObj, 106)
      [] id = "q" -> Decorated(<<113>>, NoneObj, NoneObj, IntObj(0), 107)
      [] id = "r" -> Decorated(<<114>>, NoneObj, NoneObj, TextObj(<<>>), 108)
      [] id = "m" -> Decorated(<<109, 121, 95, 110, 115, 101, 100>>, NoneObj,
                               NoneObj, NsFuncObj(IntObj(12345)), 109)
      \* @cached_view() def view(request, kind)
      [] id = "v" -> Decorated(<<118, 105, 101, 119>>, NoneObj, NoneObj,
                               NoneObj, 110)
      \* x and y raise while the external value is 0, y under 'foospace'
      [] id = "x" -> Decorated(<<120>>, NoneObj, NoneObj, NoneObj, 111)
      [] id = "y" -> Decorated(<<121>>, NoneObj, NoneObj, Foospace, 112)
      \* @cached_function(key='foospace') def c(): the explicit key is the
      \* name of the namespace of f
      [] id = "c" -> Decorated(<<99>>, NoneObj, Foospace, NoneObj, 113)
      \* @cached_view(key=['profile'], add_user_to_key=True)
      \* def w(request, kind)
      [] id = "w" -> Decorated(<<119>>, NoneObj, ListObj(<<TextObj(Profile)>>),
                               NoneObj, 114)

\* the views decorated with an explicit key list
KeyedViews == {"w"}

\* add_user_to_key of the view's decorator (cache.py:353)
AddUserToKey(id) == id = "w"

\* the list each decorator of a keyed view was given as `key`
DeclaredKeys == [id \in KeyedViews |-> ProducerOf(id).key]

Baz == InstObj(<<66, 97, 122>>, <<>>)

\* the calls the callers make: <<producer, positional arguments>>
CallSigs ==
    {<<"f", <<IntObj(4)>>>>, <<"g", <<IntObj(4)>>>>, <<"h", <<Baz>>>>}

\* the namespaces callers invalidate
Namespaces == {Foospace, Nonexistent}

Bob == TextObj(<<98, 111, 98>>)
John == TextObj(<<106, 111, 104, 110>>)

\* the producers with a negative timeout
TimeoutSigs == {<<"t", <<IntObj(4)>>>>, <<"u", <<IntObj(4)>>>>}
\* get_age(thing) with thing['name'] 'bob' and 'john' (tests.py:173-177);
\* the argument stands for its name
KeyFnSigs == {<<"k", <<Bob>>>>, <<"k", <<John>>>>}
\* the producers that return None or a falsy value
NoneSigs == {<<"n", <<>>>>, <<"z", <<>>>>, <<"e", <<>>>>}
\* my_nsed_func(1) (tests.py:142) and the producers under a falsy namespace
NsSigs == {<<"q", <<IntObj(1)>>>>, <<"r", <<IntObj(1)>>>>, <<"m", <<IntObj(1)>>>>}

\* the producers that raise
RaiseSigs == {<<"x", <<IntObj(4)>>>>, <<"y", <<IntObj(4)>>>>}
\* c(), whose explicit key is 'foospace', and my_func(4), memoized under
\* the namespace 'foospace'
CollideSigs == {<<"c", <<>>>>, <<"f", <<IntObj(4)>>>>}

\* a run takes the producers of one scenario
Scenarios == {TimeoutSigs, KeyFnSigs, NoneSigs, NsSigs, RaiseSigs}
UsageSigs == UNION Scenarios

\* the namespace values handed to invalidate_namespace for the producers
\* q, r and m, u's being 'foospace' (tests.py:145)
UsageNamespaces ==
    {IntObj(0), TextObj(<<>>), ListObj(<<IntObj(1), IntObj(12345)>>)}

\* the values the captured external value takes
Worlds == {0, 1}

\* the value the producer returns when the captured external value is w:
\* bar * factor, bar % factor (tests.py:107,111) and foo (tests.py:51)
Produce(id, args, w) ==
    CASE id = "f" -> IntObj(args[1].n * (w + 2))
      [] id = "g" -> IntObj(args[1].n % (w + 2))
      [] id = "h" -> IntObj(10 * (w + 1))
      \* p['age'] (tests.py:171)
      [] id = "k" -> IntObj(30 + w)
      [] id = "n" -> IF w = 0 THEN NoneObj ELSE IntObj(3)
      [] id = "z" -> IF w = 0 THEN IntObj(0) ELSE IntObj(7)
      [] id = "e" -> IF w = 0 THEN TextObj(<<>>) ELSE BoolObj(FALSE)
      [] id \in {"x", "y"} ->
            IF w = 0 THEN RaisedObj ELSE IntObj(args[1].n + 1)
      [] id = "c" -> IntObj(20 + w)
      \* view(request, kind): the kind of page chooses the status and
      \* the headers of the response, the body shows the external value
      [] id \in {"v", "w"} ->
                     ResponseObj(IF args[2].n = 1 THEN 404 ELSE 200,
                                 args[2].n = 2, args[2].n = 3, <<48 + w>>)
      \* val + foo (tests.py:141)
      [] OTHER -> IntObj(5 * (w + 1) + args[1].n)

\* cache.make_key(''): Django's default key function prepends
\* KEY_PREFIX ':' VERSION ':', here ':1:' (cache.py:116-117)
DjangoPrefix == <<58, 49, 58>>

\* _make_key_args_from_function(func, args) (cache.py:129-171)
_make_key_args_from_function(id, args) ==
    LET func == ProducerOf(id)
        head == <<TextObj(CachedFuncTag), TextObj(func.name)>>
        mid  == IF func.method
                THEN <<TextObj(args[1].s)>> \o args[1].l \o Tail(args)
                ELSE args
    IN  ListObj(head \o mid \o <<TextObj(pack_int(func.code))>>)

\* a faulty call_if_callable that hands the callable on without calling it.
\* C15_CallableKeyResolved fails with it.
call_if_callable_Uncalled(obj, func_args) == obj

\* call_if_callable(obj) of _make_key (cache.py:226-229)
call_if_callable(obj, func_args) ==
    CASE obj.t = "fn" -> func_args[obj.n]
      [] obj.t = "nsfn" -> ListObj(<<func_args[1], obj.l[1]>>)
      [] OTHER -> obj

\* key or _make_key_args_from_function(func, args)
\* (cache.py:273, 326-327)
KeyArgsOf(id, args) ==
    IF Truthy(ProducerOf(id).key) THEN ProducerOf(id).key
    ELSE _make_key_args_from_function(id, args)

\* _make_key(key_args, namespace, func_args, func_kwargs) once the packed
\* namespace prefix is known: ns_prefix is <<>> when `if namespace:` fails
\* and <<the value returned by _get_namespace_prefix>> otherwise; prefix is
\* the backend's cache.make_key('') (cache.py:220-239)
_make_key(key_args, ns_prefix, func_args, prefix) ==
    LET items == _key_arg_iterator(key_args, 1)
        called == [i \in 1..Len(items) |-> call_if_callable(items[i], func_args)]
    IN  make_key(ListObj(called \o ns_prefix), prefix)

\* the number of calls map(call_if_callable, _key_arg_iterator(key_args))
\* makes to callables of key_args (cache.py:231)
CallableCalls(key_args) ==
    Len(SelectSeq(_key_arg_iterator(key_args, 1), IsCallable))

\* int(t.total_seconds()): the seconds of a timedelta, truncated towards
\* zero (cache.py:248)
_timedelta_to_seconds(t) ==
    IF t.n >= 0 THEN t.n \div 1000000 ELSE -((-t.n) \div 1000000)

\* _set_cache raises for this timeout: after a timedelta is turned into
\* seconds, `timeout and timeout < 0` (cache.py:256-259)
TimeoutIsNegative(timeout) ==
    LET resolved == IF timeout.t = "timedelta"
                    THEN IntObj(_timedelta_to_seconds(timeout))
                    ELSE timeout
    IN  Truthy(resolved) /\ resolved.n < 0

\* the namespace of a call, after call_if_callable (cache.py:233)
NamespaceOf(id, args) == call_if_callable(ProducerOf(id).namespace, args)

\* make_key(namespace) of every namespace in use (cache.py:209, 235),
\* evaluated once
NamespaceKeys ==
    [namespace \in Namespaces \cup UsageNamespaces |->
        make_key(namespace, DjangoPrefix)]

\* make_key(namespace) (cache.py:209, 235)
NamespaceKeyOf(namespace) ==
    IF namespace \in DOMAIN NamespaceKeys THEN NamespaceKeys[namespace]
    ELSE make_key(namespace, DjangoPrefix)

\* the call sig was memoized under the namespace that invalidate_namespace
\* turns into key: its namespace is not None and make_key turns it into key
InNamespace(sig, key) ==
    LET namespace == NamespaceOf(sig[1], sig[2])
    IN  namespace.t # "none" /\ NamespaceKeyOf(namespace).key = key

\* make_key(namespace) for the namespace of a call (cache.py:235); the key
\* is <<>> when the call has no namespace
NsKeyOf(sig) ==
    LET namespace == NamespaceOf(sig[1], sig[2])
    IN  IF ~Truthy(namespace) THEN [exc |-> FALSE, key |-> <<>>]
        ELSE NamespaceKeyOf(namespace)

\* the key of a call: _make_key on its key arguments, with the generation
\* ns_key of its namespace when gens is <<ns_key>> and without a namespace
\* when gens is <<>> (cache.py:326-328, 198, 235)
KeyOfCall(sig, gens) ==
    _make_key(KeyArgsOf(sig[1], sig[2]),
              [i \in 1..Len(gens) |-> TextObj(pack_int(gens[i]))], sig[2],
              DjangoPrefix)

\* KeyOfCall for the calls and generations of this model, evaluated once
KeysWithoutNs == [sig \in CallSigs \cup UsageSigs |-> KeyOfCall(sig, <<>>)]
KeysWithNs ==
    [sig \in CallSigs \cup UsageSigs, g \in 1..(MaxClock + 1) |->
        KeyOfCall(sig, <<g>>)]

\* the key _make_key returns for a call
EntryKey(sig, gens) ==
    IF sig \notin CallSigs \cup UsageSigs THEN KeyOfCall(sig, gens)
    ELSE IF gens = <<>> THEN KeysWithoutNs[sig]
    ELSE IF gens[1] \in 1..(MaxClock + 1) THEN KeysWithNs[sig, gens[1]]
    ELSE KeyOfCall(sig, gens)

(***************************************************************************)
(* State.                                                                  *)
(***************************************************************************)
VARIABLES
    store,      \* the cache backend: a function from keys to stored values
    clock,      \* the reading of time.time() that seeds the next generation
    world,      \* the external value the producers capture
    pc,         \* per caller: the store access it is about to make
    loc,        \* per caller: the locals of the operation it is running
    hist,       \* per call signature: what the callers have observed so far
    lastInval,  \* per namespace key: the value the last cache.incr returned
    overwrites, \* number of seeds written over a counter that was present
    keyspec,    \* per keyed view: the list its decorator holds as `key`
    kfn,        \* key derivation alone: the function that was called
    kin,        \* key derivation alone: the object it was given
    kgen,       \* key derivation alone: <<>> or <<the namespace generation>>
    kpre,       \* key derivation alone: the backend's key prefix
    kout        \* key derivation alone: what the function returned

vars == <<store, clock, world, pc, loc, hist, lastInval,
          overwrites, keyspec, kfn, kin, kgen, kpre, kout>>

storeVars == <<store, clock, world, pc, loc, hist, lastInval,
               overwrites, keyspec>>
keyVars == <<kfn, kin, kgen, kpre, kout>>

Procs == {"p1", "p2"}

\* cache.get(key): the stored value, or None
CacheGet(key) == IF key \in DOMAIN store THEN store[key] ELSE NoneObj

\* the store after cache.set(key, val)
CacheSet(key, val) ==
    [k \in DOMAIN store \cup {key} |-> IF k = key THEN val ELSE store[k]]

\* the store after cache.delete(key)
CacheDelete(key) == [k \in DOMAIN store \ {key} |-> store[k]]

NoMemo == [ok |-> FALSE, key |-> <<>>, val |-> NoneObj]

BlankLoc ==
    [op |-> "none", f |-> "", args |-> <<>>, ns |-> <<>>, ns_key |-> 0,
     key |-> <<>>, val |-> NoneObj, invoked |-> FALSE, exc |-> FALSE,
     absent |-> FALSE, seeded |-> FALSE, expect |-> NoMemo,
     afterDelete |-> FALSE, afterInval |-> FALSE, minGen |-> 0,
     called |-> 0, afterRaise |-> FALSE]

BlankHist ==
    [memo |-> NoMemo, deleted |-> FALSE, invalidated |-> FALSE,
     raised |-> FALSE]


InitStore ==
    /\ store = <<>>
    /\ clock = 1
    /\ world = 0
    /\ pc = [p \in Procs |-> "idle"]
    /\ loc = [p \in Procs |-> BlankLoc]
    /\ hist = [sig \in CallSigs |-> BlankHist]
    /\ lastInval = [k \in {NamespaceKeys[n].key : n \in Namespaces} |-> 0]
    /\ overwrites = 0
    /\ keyspec = DeclaredKeys

\* no key has been derived outside the callers' operations
InitKey ==
    /\ kfn = "none"
    /\ kin = NoneObj
    /\ kgen = <<>>
    /\ kpre = DjangoPrefix
    /\ kout = [exc |-> FALSE, key |-> <<>>]

Init == InitStore /\ InitKey

(***************************************************************************)
(* cached_function's wrapped(args) and delete_cache(args), one store     *)
(* access per step.                                                        *)
(***************************************************************************)
\* the step after the key is derived: cache.get for a call (cache.py:330),
\* cache.delete for delete_cache (cache.py:275)
AfterKey(op) == IF op = "call" THEN "get" ELSE "delete"

\* wrapped(args) or delete_cache(args) of a producer of this run is
\* entered: the key arguments are built and _make_key runs up to its first
\* store access
\* (cache.py:272-274, 325-328, 226-235)
Begin(p, op, sig) ==
    /\ pc[p] = "idle"
    /\ sig \in DOMAIN hist
    /\ LET id == sig[1]
           args == sig[2]
           namespace == NamespaceOf(id, args)
           base == [BlankLoc EXCEPT !.op = op, !.f = id, !.args = args,
                        !.called = CallableCalls(KeyArgsOf(id, args)),
                        !.expect = hist[sig].memo,
                        !.afterDelete = hist[sig].deleted,
                        !.afterInval = hist[sig].invalidated,
                        !.afterRaise = hist[sig].raised]
       IN  IF Truthy(namespace)
           THEN LET nk == NsKeyOf(sig)
                IN  IF nk.exc
                    THEN /\ loc' = [loc EXCEPT ![p] = [base EXCEPT !.exc = TRUE]]
                         /\ pc' = [pc EXCEPT ![p] = "ret"]
                    ELSE /\ loc' = [loc EXCEPT ![p] =
                                      [base EXCEPT !.ns = nk.key,
                                                   !.minGen = lastInval[nk.key]]]
                         /\ pc' = [pc EXCEPT ![p] = "ns_get"]
           ELSE LET k == EntryKey(sig, <<>>)
                IN  IF k.exc
                    THEN /\ loc' = [loc EXCEPT ![p] = [base EXCEPT !.exc = TRUE]]
                         /\ pc' = [pc EXCEPT ![p] = "ret"]
                    ELSE /\ loc' = [loc EXCEPT ![p] = [base EXCEPT !.key = k.key]]
                         /\ pc' = [pc EXCEPT ![p] = AfterKey(op)]
    /\ UNCHANGED <<store, clock, world, hist, lastInval, overwrites>>
    /\ UNCHANGED keyVars
    /\ UNCHANGED keyspec

\* the rest of _make_key once ns_key is known: pack it, append it to the
\* key arguments, make the key (cache.py:198, 235, 239)
WithNsKey(l, ns_key) ==
    LET k == EntryKey(<<l.f, l.args>>, <<ns_key>>)
    IN  [l EXCEPT !.ns_key = ns_key, !.key = k.key, !.exc = k.exc]

\* ns_key = cache.get(namespace) (cache.py:192-193)
NsGet(p) ==
    /\ pc[p] = "ns_get"
    /\ LET v == CacheGet(loc[p].ns)
       IN  IF Truthy(v)
           THEN LET l == WithNsKey(loc[p], v.n)
                IN  /\ loc' = [loc EXCEPT ![p] = l]
                    /\ pc' = [pc EXCEPT ![p] =
                                IF l.exc THEN "ret" ELSE AfterKey(l.op)]
           ELSE /\ pc' = [pc EXCEPT ![p] = "ns_seed"]
                /\ loc' = loc
    /\ UNCHANGED <<store, clock, world, hist, lastInval, overwrites>>
    /\ UNCHANGED keyVars
    /\ UNCHANGED keyspec

\* ns_key = _make_namespace_prefix() (cache.py:194, 173-185).  The value is
\* the current time, which no earlier reading and no generation reached by
\* incrementing an earlier reading equals: every reading and every
\* increment takes time.  limit bounds the clock of the run.
NsSeed(p, limit) ==
    /\ pc[p] = "ns_seed"
    /\ clock < limit
    /\ loc' = [loc EXCEPT ![p].ns_key = clock, ![p].seeded = TRUE]
    /\ clock' = clock + 1
    /\ pc' = [pc EXCEPT ![p] = "ns_set"]
    /\ UNCHANGED <<store, world, hist, lastInval, overwrites>>
    /\ UNCHANGED keyVars
    /\ UNCHANGED keyspec

\* cache.set(namespace, ns_key), then the rest of _make_key
\* (cache.py:195-198, 235-239)
NsSet(p) ==
    /\ pc[p] = "ns_set"
    /\ store' = CacheSet(loc[p].ns, IntObj(loc[p].ns_key))
    /\ overwrites' = IF Truthy(CacheGet(loc[p].ns)) THEN overwrites + 1
                     ELSE overwrites
    /\ LET l == WithNsKey(loc[p], loc[p].ns_key)
       IN  /\ loc' = [loc EXCEPT ![p] = l]
           /\ pc' = [pc EXCEPT ![p] = IF l.exc THEN "ret" ELSE AfterKey(l.op)]
    /\ UNCHANGED <<clock, world, hist, lastInval>>
    /\ UNCHANGED keyVars
    /\ UNCHANGED keyspec

\* a faulty wrapped: the value read from the store is ignored and the
\* producer is always invoked.  C1_HitReturnsStored fails with it.
Get_IgnoresStore(p) ==
    /\ pc[p] = "get"
    /\ pc' = [pc EXCEPT ![p] = "func"]
    /\ loc' = loc
    /\ UNCHANGED <<store, clock, world, hist, lastInval, overwrites>>
    /\ UNCHANGED keyVars
    /\ UNCHANGED keyspec

\* a faulty wrapped whose hit test is `if not val`.
\* C17_HitTestIsNotNone fails with it.
Get_TruthTest(p) ==
    /\ pc[p] = "get"
    /\ LET v == CacheGet(loc[p].key)
       IN  IF ~Truthy(v)
           THEN /\ pc' = [pc EXCEPT ![p] = "func"]
                /\ loc' = loc
           ELSE /\ pc' = [pc EXCEPT ![p] = "ret"]
                /\ loc' = [loc EXCEPT ![p].val = v]
    /\ UNCHANGED <<store, clock, world, hist, lastInval, overwrites>>
    /\ UNCHANGED keyVars
    /\ UNCHANGED keyspec

\* val = cache.get(_key); if val is None: ... (cache.py:330-331)
Get(p) ==
    /\ pc[p] = "get"
    /\ LET v == CacheGet(loc[p].key)
       IN  IF v.t = "none"
           THEN /\ pc' = [pc EXCEPT ![p] = "func"]
                /\ loc' = loc
           ELSE /\ pc' = [pc EXCEPT ![p] = "ret"]
                /\ loc' = [loc EXCEPT ![p].val = v]
    /\ UNCHANGED <<store, clock, world, hist, lastInval, overwrites>>
    /\ UNCHANGED keyVars
    /\ UNCHANGED keyspec

\* a faulty wrapped that catches what the producer raises and caches a
\* placeholder in its place.  C25_RaiseStoresNothing fails with it.
Func_CachesFailure(p) ==
    /\ pc[p] = "func"
    /\ LET val == Produce(loc[p].f, loc[p].args, world)
       IN  IF val.t = "raised"
           THEN /\ loc' = [loc EXCEPT ![p].invoked = TRUE]
                /\ store' = CacheSet(loc[p].key, IntObj(0))
                /\ hist' = [hist EXCEPT ![<<loc[p].f, loc[p].args>>].raised = TRUE]
                /\ pc' = [pc EXCEPT ![p] = "ret"]
           ELSE /\ loc' = [loc EXCEPT ![p].val = val, ![p].invoked = TRUE]
                /\ pc' = [pc EXCEPT ![p] = "set"]
                /\ UNCHANGED <<store, hist>>
    /\ UNCHANGED <<clock, world, lastInval, overwrites>>
    /\ UNCHANGED keyVars
    /\ UNCHANGED keyspec

\* val = func(args): what the producer raises leaves wrapped at once, and
\* otherwise wrapped goes on with the value (cache.py:332)
Func(p) ==
    /\ pc[p] = "func"
    /\ LET val == Produce(loc[p].f, loc[p].args, world)
       IN  IF val.t = "raised"
           THEN /\ loc' = [loc EXCEPT ![p].invoked = TRUE, ![p].exc = TRUE]
                /\ hist' = [hist EXCEPT ![<<loc[p].f, loc[p].args>>].raised = TRUE]
                /\ pc' = [pc EXCEPT ![p] = "ret"]
           ELSE /\ loc' = [loc EXCEPT ![p].val = val, ![p].invoked = TRUE]
                /\ pc' = [pc EXCEPT ![p] = "set"]
                /\ hist' = hist
    /\ UNCHANGED <<store, clock, world, lastInval, overwrites>>
    /\ UNCHANGED keyVars
    /\ UNCHANGED keyspec

\* _set_cache(_key, val, timeout): the Exception of a negative timeout,
\* or cache.set (cache.py:333, 252-262)
SetCache(p) ==
    /\ pc[p] = "set"
    /\ IF TimeoutIsNegative(ProducerOf(loc[p].f).timeout)
       THEN /\ loc' = [loc EXCEPT ![p].exc = TRUE]
            /\ UNCHANGED <<store, hist>>
       ELSE /\ store' = CacheSet(loc[p].key, loc[p].val)
            /\ hist' = [hist EXCEPT ![<<loc[p].f, loc[p].args>>] =
                          [memo |-> [ok |-> loc[p].val.t # "none",
                                     key |-> loc[p].key, val |-> loc[p].val],
                           deleted |-> FALSE, invalidated |-> FALSE,
                           raised |-> FALSE]]
            /\ loc' = loc
    /\ pc' = [pc EXCEPT ![p] = "ret"]
    /\ UNCHANGED <<clock, world, lastInval, overwrites>>
    /\ UNCHANGED keyVars
    /\ UNCHANGED keyspec

\* a faulty delete_cache: the entry stays in the store.
\* C2_DeleteThenRecompute fails with it.
Delete_KeepsEntry(p) ==
    /\ pc[p] = "delete"
    /\ store' = store
    /\ hist' = [hist EXCEPT ![<<loc[p].f, loc[p].args>>] =
                  [memo |-> NoMemo, deleted |-> TRUE,
                   invalidated |-> @.invalidated, raised |-> @.raised]]
    /\ pc' = [pc EXCEPT ![p] = "ret"]
    /\ UNCHANGED <<clock, world, loc, lastInval, overwrites>>
    /\ UNCHANGED keyVars
    /\ UNCHANGED keyspec

\* cache.delete(_key) (cache.py:275)
Delete(p) ==
    /\ pc[p] = "delete"
    /\ store' = CacheDelete(loc[p].key)
    /\ hist' = [hist EXCEPT ![<<loc[p].f, loc[p].args>>] =
                  [memo |-> NoMemo, deleted |-> TRUE,
                   invalidated |-> @.invalidated, raised |-> @.raised]]
    /\ pc' = [pc EXCEPT ![p] = "ret"]
    /\ UNCHANGED <<clock, world, loc, lastInval, overwrites>>
    /\ UNCHANGED keyVars
    /\ UNCHANGED keyspec

\* the operation returns to its caller
Return(p) ==
    /\ pc[p] = "ret"
    /\ pc' = [pc EXCEPT ![p] = "idle"]
    /\ loc' = [loc EXCEPT ![p] = BlankLoc]
    /\ UNCHANGED <<store, clock, world, hist, lastInval, overwrites>>
    /\ UNCHANGED keyVars
    /\ UNCHANGED keyspec

(***************************************************************************)
(* invalidate_namespace(namespace)                                         *)
(***************************************************************************)
\* invalidate_namespace of a namespace of this run is entered:
\* namespace = make_key(namespace) and the two logger.debug lines, whose
\* cache.get changes nothing (cache.py:209-212)
BeginInvalidate(p, namespace) ==
    /\ pc[p] = "idle"
    /\ NamespaceKeyOf(namespace).key \in DOMAIN lastInval
    /\ LET nk == NamespaceKeyOf(namespace)
       IN  /\ loc' = [loc EXCEPT ![p] =
                        [BlankLoc EXCEPT !.op = "inval", !.ns = nk.key,
                                         !.exc = nk.exc]]
           /\ pc' = [pc EXCEPT ![p] = IF nk.exc THEN "ret" ELSE "incr"]
    /\ UNCHANGED <<store, clock, world, hist, lastInval, overwrites>>
    /\ UNCHANGED keyVars
    /\ UNCHANGED keyspec

\* a faulty store whose incr creates the absent key with the value 1.
\* C6_InvalidateAbsent fails with it.
CacheIncr_Creates(key) ==
    IF key \in DOMAIN store
    THEN [store |-> [store EXCEPT ![key] = IntObj(@.n + 1)], err |-> FALSE]
    ELSE [store |-> CacheSet(key, IntObj(1)), err |-> FALSE]

\* the store and the error after cache.incr(key): ValueError when the key
\* is absent
CacheIncr(key) ==
    IF key \in DOMAIN store
    THEN [store |-> [store EXCEPT ![key] = IntObj(@.n + 1)], err |-> FALSE]
    ELSE [store |-> store, err |-> TRUE]

\* a faulty invalidate_namespace that increments nothing.
\* C3_NamespaceInvalidation fails with it.
invalidate_namespace_NoIncr(key) ==
    [store |-> store, exc |-> FALSE]

\* a faulty invalidate_namespace that drops every other key of the store
\* with the increment.  C24_InvalidateTouchesCounterOnly fails with it.
invalidate_namespace_Flush(key) ==
    LET r == CacheIncr(key)
    IN  [store |-> [k \in DOMAIN r.store \cap {key} |-> r.store[k]],
         exc |-> FALSE]

\* try: cache.incr(namespace) except ValueError: pass (cache.py:214-218)
invalidate_namespace(key) ==
    LET r == CacheIncr(key) IN [store |-> r.store, exc |-> FALSE]

\* the increment of invalidate_namespace.  The increment takes time: the
\* clock moves on with it.  limit bounds the clock of the run.
Incr(p, limit) ==
    /\ pc[p] = "incr"
    /\ clock < limit
    /\ LET r == invalidate_namespace(loc[p].ns)
       IN  /\ store' = r.store
           /\ loc' = [loc EXCEPT ![p].absent = loc[p].ns \notin DOMAIN store,
                                 ![p].exc = r.exc]
           /\ lastInval' = IF loc[p].ns \in DOMAIN r.store
                           THEN [lastInval EXCEPT ![loc[p].ns] =
                                    r.store[loc[p].ns].n]
                           ELSE lastInval
    /\ clock' = clock + 1
    /\ hist' = [sig \in DOMAIN hist |->
                  IF InNamespace(sig, loc[p].ns)
                  THEN [memo |-> NoMemo, deleted |-> hist[sig].deleted,
                        invalidated |-> hist[sig].invalidated \/ hist[sig].memo.ok,
                        raised |-> hist[sig].raised]
                  ELSE hist[sig]]
    /\ pc' = [pc EXCEPT ![p] = "ret"]
    /\ UNCHANGED <<world, overwrites>>
    /\ UNCHANGED keyVars
    /\ UNCHANGED keyspec

(***************************************************************************)
(* The environment.                                                        *)
(***************************************************************************)
\* the store evicts or expires one entry, while the callers of `callers`
\* are between two operations
Evict(k, callers) ==
    /\ \A p \in callers : pc[p] = "idle"
    /\ k \in DOMAIN store
    /\ store' = CacheDelete(k)
    /\ hist' = [sig \in DOMAIN hist |->
                  IF hist[sig].memo.key = k \/ NsKeyOf(sig).key = k
                  THEN [hist[sig] EXCEPT !.memo = NoMemo]
                  ELSE hist[sig]]
    /\ UNCHANGED <<clock, world, pc, loc, lastInval, overwrites>>
    /\ UNCHANGED keyVars
    /\ UNCHANGED keyspec

\* the external value the producers capture is changed, while the callers
\* of `callers` are between two operations
\* (foo = 20, tests.py:39; factor = 3, tests.py:119)
Mutate(callers) ==
    /\ \A p \in callers : pc[p] = "idle"
    /\ world' \in Worlds \ {world}
    /\ UNCHANGED <<store, clock, pc, loc, hist, lastInval, overwrites>>
    /\ UNCHANGED keyVars
    /\ UNCHANGED keyspec

\* one step of caller p, who calls the producers of sigs and invalidates
\* the namespaces of nss, in a run whose clock stops at limit
Step(p, sigs, nss, limit) ==
    \/ \E op \in {"call", "delete"}, sig \in sigs : Begin(p, op, sig)
    \/ \E namespace \in nss : BeginInvalidate(p, namespace)
    \/ NsGet(p)
    \/ NsSeed(p, limit)
    \/ NsSet(p)
    \/ Get(p)
    \/ Func(p)
    \/ SetCache(p)
    \/ Delete(p)
    \/ Incr(p, limit)
    \/ Return(p)

\* one caller: every operation runs to its end before the next begins
Next ==
    \/ Step("p1", CallSigs, Namespaces, MaxClock)
    \/ \E k \in DOMAIN store : Evict(k, {"p1"})
    \/ Mutate({"p1"})

Spec == Init /\ [][Next]_vars

\* the calls and the namespace of the concurrent callers
ConcSigs == {<<"f", <<IntObj(4)>>>>}
ConcNamespaces == {Foospace}

\* two concurrent first seeds and an invalidation take one reading of the
\* clock more than a seed and an invalidation in sequence
ConcClock == MaxClock + 1

\* several callers, interleaved at every store access, of a store that
\* evicts nothing
ConcNext ==
    \/ \E p \in Procs : Step(p, ConcSigs, ConcNamespaces, ConcClock)
    \/ Mutate({})

ConcSpec == Init /\ [][ConcNext]_vars

(***************************************************************************)
(* One caller of producers decorated with the other options of             *)
(* cached_function: a negative timeout, a key that holds a callable,       *)
(* results that are None or falsy, namespaces that are falsy or come from  *)
(* a namespace function.  Each run takes the producers of one scenario.    *)
(***************************************************************************)
\* the namespace values the producers of sigs are memoized under
DeclaredNamespaces(sigs) ==
    {NamespaceOf(sig[1], sig[2]) : sig \in sigs} \ {NoneObj}

UsageInit ==
    /\ store = <<>>
    /\ clock = 1
    /\ world = 0
    /\ pc = [p \in Procs |-> "idle"]
    /\ loc = [p \in Procs |-> BlankLoc]
    /\ hist \in {[sig \in sc |-> BlankHist] : sc \in Scenarios}
    /\ lastInval = [k \in {NamespaceKeyOf(n).key :
                              n \in DeclaredNamespaces(DOMAIN hist)} |-> 0]
    /\ overwrites = 0
    /\ keyspec = DeclaredKeys
    /\ InitKey

\* one caller of the producers of the scenario, of a store that evicts
\* nothing
UsageNext ==
    \/ Step("p1", UsageSigs, UsageNamespaces \cup {Foospace}, MaxClock)
    \/ Mutate({"p1"})

UsageSpec == UsageInit /\ [][UsageNext]_vars

(***************************************************************************)
(* One caller of my_func, memoized under the namespace 'foospace', and of  *)
(* a producer whose explicit key is 'foospace'.                            *)
(***************************************************************************)
CollideInit ==
    /\ store = <<>>
    /\ clock = 1
    /\ world = 0
    /\ pc = [p \in Procs |-> "idle"]
    /\ loc = [p \in Procs |-> BlankLoc]
    /\ hist = [sig \in CollideSigs |-> BlankHist]
    /\ lastInval = [k \in {NamespaceKeyOf(n).key :
                              n \in DeclaredNamespaces(CollideSigs)} |-> 0]
    /\ overwrites = 0
    /\ keyspec = DeclaredKeys
    /\ InitKey

\* one caller of the two producers, who also invalidates 'foospace', of a
\* store that evicts nothing, while the external value stays as it is
CollideNext == Step("p1", CollideSigs, {Foospace}, MaxClock)

CollideSpec == CollideInit /\ [][CollideNext]_vars

(***************************************************************************)
(* cached_view: one caller of a view decorated with @cached_view() (no     *)
(* key, no namespace, add_user_to_key False) and of its delete_cache.      *)
(* Each run takes one of the requests.                                     *)
(***************************************************************************)
MethodGet == <<71, 69, 84>>
MethodHead == <<72, 69, 65, 68>>
MethodPost == <<80, 79, 83, 84>>

\* GET ?page=2, HEAD, POST, and a GET whose user has a message waiting
ViewRequests ==
    { RequestObj(MethodGet, 0, <<<<TextObj(<<112, 97, 103, 101>>), TextObj(<<50>>)>>>>),
      RequestObj(MethodHead, 0, <<>>),
      RequestObj(MethodPost, 0, <<>>),
      RequestObj(MethodGet, 1, <<>>) }

\* the pages of the view: 0 answers 200, 1 answers 404, 2 answers 200 with
\* Cache-Control: no-cache, 3 answers 200 with Pragma: no-cache
ViewKinds == 0..3

\* the requests made: view(request, kind)
ViewSigs == {<<"v", <<req, IntObj(kind)>>>> : req \in ViewRequests, kind \in ViewKinds}

\* _can_cache_request(request) (cache.py:338-345)
_can_cache_request(request) ==
    IF request.n # 0 THEN FALSE
    ELSE request.s \in {MethodGet, MethodHead}

\* _can_cache_response(response) (cache.py:347-351)
_can_cache_response(response) ==
    \/ response.n # 200
    \/ response.l[1].n = 1
    \/ response.l[2].n = 1

\* translation.get_language(): 'en-us' (cache.py:388)
Language == TextObj(<<101, 110, 45, 117, 115>>)
\* getattr(settings, 'SITE_ID', None) (cache.py:391)
SiteId == IntObj(1)

\* the default key_args of cached_view's wrapped: the view's arguments
\* without the request, the items of request.GET, the method, the
\* language and the site (cache.py:376-391)
ViewKeyArgs(sig) ==
    LET request == sig[2][1]
        key_args == _make_key_args_from_function(sig[1], Tail(sig[2]))
        items == Concat([i \in 1..Len(request.d) |->
                            <<request.d[i][1], request.d[i][2]>>])
    IN  ListObj(key_args.l \o items
                    \o <<TextObj(request.s), Language, SiteId>>)

\* _key = _make_key(key_args, namespace, (request,) + args, kwargs) for
\* every request of this model, evaluated once (cache.py:401)
ViewKeys ==
    [sig \in ViewSigs |-> _make_key(ViewKeyArgs(sig), <<>>, sig[2], DjangoPrefix)]

\* cached_view's wrapped(request, args) is entered: an uncacheable request
\* is answered by the view itself; otherwise key_args is the decorator's
\* key list or, without one, the default key, the id of an authenticated
\* user is appended to it when add_user_to_key is set (to the decorator's
\* own list, in place, when key_args is that list), and the key is built
\* (cache.py:372-401)
BeginView(p, sig) ==
    /\ pc[p] = "idle"
    /\ sig \in DOMAIN hist
    /\ LET id == sig[1]
           request == sig[2][1]
           base == [BlankLoc EXCEPT !.op = "view", !.f = id,
                        !.args = sig[2],
                        !.expect = hist[sig].memo,
                        !.afterDelete = hist[sig].deleted,
                        !.afterInval = hist[sig].invalidated,
                        !.afterRaise = hist[sig].raised]
           explicit == Truthy(ProducerOf(id).key)
           adds == AddUserToKey(id) /\ request.l # <<>>
           key_args == IF explicit THEN keyspec[id] ELSE ViewKeyArgs(sig)
           appended == IF adds THEN ListObj(key_args.l \o request.l)
                       ELSE key_args
           k == IF sig \in DOMAIN ViewKeys THEN ViewKeys[sig]
                ELSE _make_key(appended, <<>>, sig[2], DjangoPrefix)
       IN  IF ~_can_cache_request(request)
           THEN /\ loc' = [loc EXCEPT ![p] =
                             [base EXCEPT !.val = Produce(id, sig[2], world),
                                          !.invoked = TRUE]]
                /\ pc' = [pc EXCEPT ![p] = "ret"]
                /\ keyspec' = keyspec
           ELSE /\ (explicit /\ adds)
                      => Len(keyspec[id].l)
                            < Len(ProducerOf(id).key.l) + MaxServed
                /\ keyspec' = IF explicit /\ adds
                              THEN [keyspec EXCEPT ![id] = appended]
                              ELSE keyspec
                /\ IF k.exc
                   THEN /\ loc' = [loc EXCEPT ![p] = [base EXCEPT !.exc = TRUE]]
                        /\ pc' = [pc EXCEPT ![p] = "ret"]
                   ELSE /\ loc' = [loc EXCEPT ![p] = [base EXCEPT !.key = k.key]]
                        /\ pc' = [pc EXCEPT ![p] = "get"]
    /\ UNCHANGED <<store, clock, world, hist, lastInval, overwrites>>
    /\ UNCHANGED keyVars

\* if _can_cache_response(val): _set_cache(_key, val, timeout)
\* (cache.py:407-408)
ViewSet(p) ==
    /\ pc[p] = "set"
    /\ IF _can_cache_response(loc[p].val)
       THEN SetCache(p)
       ELSE /\ pc' = [pc EXCEPT ![p] = "ret"]
            /\ UNCHANGED <<store, clock, world, loc, hist, lastInval,
                           overwrites>>
            /\ UNCHANGED keyVars
            /\ UNCHANGED keyspec

ViewInit ==
    /\ store = <<>>
    /\ clock = 1
    /\ world = 0
    /\ pc = [p \in Procs |-> "idle"]
    /\ loc = [p \in Procs |-> BlankLoc]
    /\ hist \in {[sig \in {sg \in ViewSigs : sg[2][1] = req} |-> BlankHist] :
                    req \in ViewRequests}
    /\ lastInval = [k \in {} |-> 0]
    /\ overwrites = 0
    /\ keyspec = DeclaredKeys
    /\ InitKey

\* one caller, who repeats one request for the pages of the view and
\* calls delete_cache with the arguments of a request that can be cached
ViewNext ==
    \/ \E sig \in ViewSigs : BeginView("p1", sig)
    \/ \E sig \in ViewSigs :
          _can_cache_request(sig[2][1]) /\ Begin("p1", "delete", sig)
    \/ Get("p1")
    \/ Func("p1")
    \/ ViewSet("p1")
    \/ Delete("p1")
    \/ Return("p1")
    \/ Mutate({"p1"})

ViewSpec == ViewInit /\ [][ViewNext]_vars

(***************************************************************************)
(* cached_view with an explicit key list and add_user_to_key: one caller   *)
(* of the view w, for an authenticated and for an anonymous user.          *)
(***************************************************************************)
\* the user whose id is 7
User7 == <<IntObj(7)>>

\* a GET of the user 7 and a GET of an anonymous user
UserRequests ==
    {UserRequestObj(MethodGet, User7), UserRequestObj(MethodGet, <<>>)}

\* the requests made: w(request, kind), for the pages 0 and 1
UserViewSigs ==
    {<<"w", <<req, IntObj(kind)>>>> : req \in UserRequests, kind \in {0, 1}}

UserViewInit ==
    /\ store = <<>>
    /\ clock = 1
    /\ world = 0
    /\ pc = [p \in Procs |-> "idle"]
    /\ loc = [p \in Procs |-> BlankLoc]
    /\ hist = [sig \in UserViewSigs |-> BlankHist]
    /\ lastInval = [k \in {} |-> 0]
    /\ overwrites = 0
    /\ keyspec = DeclaredKeys
    /\ InitKey

\* one caller, who repeats the requests
UserViewNext ==
    \/ \E sig \in UserViewSigs : BeginView("p1", sig)
    \/ Get("p1")
    \/ Func("p1")
    \/ ViewSet("p1")
    \/ Return("p1")
    \/ Mutate({"p1"})

UserViewSpec == UserViewInit /\ [][UserViewNext]_vars

(***************************************************************************)
(* Key derivation alone: make_key and _make_key applied to key inputs,     *)
(* namespace generations and backend prefixes drawn from bounded sets.     *)
(***************************************************************************)
\* n times the byte b
Rep(b, n) == [i \in 1..n |-> b]

Foo == TextObj(<<102, 111, 111>>)
Bar == TextObj(<<98, 97, 114>>)
\* 'qu ux' (tests.py:14)
QuUx == TextObj(<<113, 117, 32, 117, 120>>)
\* 'foo bar\t' (tests.py:77)
FooBarTab == TextObj(<<102, 111, 111, 32, 98, 97, 114, 9>>)
\* u'\xc0\x85€\x7fA\xa0': text whose UTF-8 form holds the bytes 0x80,
\* 0x85, 0x82, 0x7f and 0xa0
NonAscii == TextObj(<<192, 133, 8364, 127, 65, 160>>)
\* 'foo.bar': one atom that holds the separator
FooDotBar == TextObj(<<102, 111, 111, 46, 98, 97, 114>>)
\* {1: 2} (tests.py:73)
OneTwo == DictObj(<<<<IntObj(1), IntObj(2)>>>>)
\* {1: 3}: the mapping of tests.py:73 with another value
OneThree == DictObj(<<<<IntObj(1), IntObj(3)>>>>)
\* [1, [2, [3]]]: sequences nested two levels below the top
Nested3 ==
    ListObj(<<IntObj(1), ListObj(<<IntObj(2), ListObj(<<IntObj(3)>>)>>)>>)
\* {'a b': 'c\n', None: 7}
SpacedDict ==
    DictObj(<<<<TextObj(<<97, 32, 98>>), TextObj(<<99, 10>>)>>,
              <<NoneObj, IntObj(7)>>>>)

\* the objects given to make_key
KeyInputs ==
    { Foo, QuUx, FooBarTab, NonAscii, TextObj(<<>>), NoneObj,
      IntObj(0), IntObj(-12), IntObj(12345), BoolObj(TRUE),
      OneTwo, SpacedDict, ListObj(<<>>),
      FooDotBar, ListObj(<<Foo, Bar>>),
      \* a mapping as an element of the key input, with two values
      ListObj(<<Foo, OneTwo>>), ListObj(<<Foo, OneThree>>),
      Nested3,
      \* ['foo', 'bar', 'qu ux'] (tests.py:14)
      ListObj(<<Foo, Bar, QuUx>>),
      \* [1, 2, 3, 4] (tests.py:20)
      ListObj(<<IntObj(1), IntObj(2), IntObj(3), IntObj(4)>>),
      \* range(LongAtoms) (tests.py:24)
      ListObj([i \in 1..LongAtoms |-> IntObj(i - 1)]),
      \* nested three levels deep, with a dict at every level
      ListObj(<<Foo, OneTwo,
                ListObj(<<IntObj(1), SpacedDict,
                          ListObj(<<IntObj(2), QuUx, OneTwo>>)>>)>>),
      \* texts at and around the length limit under the ':1:' prefix
      TextObj(Rep(97, MAX_KEY_LENGTH - 4)),
      TextObj(Rep(97, MAX_KEY_LENGTH - 3)),
      TextObj(Rep(97, MAX_KEY_LENGTH - 2)),
      TextObj(Rep(97, LongText)),
      \* a long text of which stripping leaves nothing
      TextObj(Rep(32, LongText)) }

\* namespace generations
KeyGens == {1, 63, 64, 262143}

\* the length of the backend's prefix cache.make_key('')
PrefixLens == {3, 219, 240, 249, 250, 255}

\* KEY_PREFIX ':1:' of n bytes
PrefixOfLen(n) == Rep(112, n - 3) \o DjangoPrefix

\* the inputs of one key derivation are drawn; nothing is derived yet
KeyInit ==
    /\ InitStore
    /\ kfn = "none"
    /\ kin \in KeyInputs
    /\ kgen \in {<<>>} \cup {<<g>> : g \in KeyGens}
    /\ kpre \in {PrefixOfLen(n) : n \in PrefixLens}
    /\ kout = [exc |-> FALSE, key |-> <<>>]

\* key = make_key(obj)
CallMakeKey ==
    /\ kfn = "none"
    /\ kgen = <<>>
    /\ kfn' = "make_key"
    /\ kout' = make_key(kin, kpre)
    /\ UNCHANGED <<kin, kgen, kpre>>
    /\ UNCHANGED storeVars

\* key = _make_key(obj, None, (), {})
CallMakeKeyNoNs ==
    /\ kfn = "none"
    /\ kgen = <<>>
    /\ kfn' = "_make_key"
    /\ kout' = _make_key(kin, <<>>, <<>>, kpre)
    /\ UNCHANGED <<kin, kgen, kpre>>
    /\ UNCHANGED storeVars

\* key = _make_key(obj, namespace, (), {}) when the generation counter of
\* the namespace holds kgen[1]
CallMakeKeyNs ==
    /\ kfn = "none"
    /\ kgen # <<>>
    /\ kfn' = "_make_key"
    /\ kout' = _make_key(kin, <<TextObj(pack_int(kgen[1]))>>, <<>>, kpre)
    /\ UNCHANGED <<kin, kgen, kpre>>
    /\ UNCHANGED storeVars

\* items = list(_key_arg_iterator(obj)), with the default max_depth of 1
\* (cache.py:40)
CallKeyArgIterator ==
    /\ kfn = "none"
    /\ kgen = <<>>
    /\ kfn' = "_key_arg_iterator"
    /\ kout' = [exc |-> FALSE, key |-> <<>>,
                items |-> _key_arg_iterator(kin, 1)]
    /\ UNCHANGED <<kin, kgen, kpre>>
    /\ UNCHANGED storeVars

KeyNext ==
    \/ CallMakeKey
    \/ CallMakeKeyNoNs
    \/ CallMakeKeyNs
    \/ CallKeyArgIterator

KeySpec == KeyInit /\ [][KeyNext]_vars

(***************************************************************************)
(* intpacker alone: pack_int, then unpack_int of what it returned.         *)
(***************************************************************************)
\* the integers given to pack_int: all of small magnitude (tests.py:189-191)
\* and some around the powers of _BASE and at the largest magnitudes
PackInts ==
    (-MaxPack..MaxPack)
        \cup {-200, 4095, 4096, -4096, -4097, 262143, 262144, -262144,
                16777215, 16777216, 2147483647, -2147483647}

PackInit ==
    /\ InitStore
    /\ kfn = "none"
    /\ kin \in {IntObj(n) : n \in PackInts}
    /\ kgen = <<>>
    /\ kpre = DjangoPrefix
    /\ kout = [exc |-> FALSE, key |-> <<>>]

\* s = pack_int(n)
CallPackInt ==
    /\ kfn = "none"
    /\ kfn' = "pack_int"
    /\ kout' = [exc |-> FALSE, key |-> pack_int(kin.n)]
    /\ UNCHANGED <<kin, kgen, kpre>>
    /\ UNCHANGED storeVars

\* m = unpack_int(s): kgen holds m when nothing was raised
CallUnpackInt ==
    /\ kfn = "pack_int"
    /\ kfn' = "unpack_int"
    /\ LET r == unpack_int(kout.key)
       IN  /\ kout' = [exc |-> r.exc, key |-> kout.key]
           /\ kgen' = IF r.exc THEN <<>> ELSE <<r.n>>
    /\ UNCHANGED <<kin, kpre>>
    /\ UNCHANGED storeVars

PackNext ==
    \/ CallPackInt
    \/ CallUnpackInt

PackSpec == PackInit /\ [][PackNext]_vars

(***************************************************************************)
(* pack_int one iteration at a time: kgen holds the local n of the loop,   *)
(* kout.key the list s of the symbols appended so far.                     *)
(***************************************************************************)
\* pack_int(n) is entered: s = [] (intpacker.py:14-15)
PackEnter ==
    /\ kfn = "none"
    /\ kfn' = "pack_int_loop"
    /\ kgen' = <<kin.n>>
    /\ kout' = [exc |-> FALSE, key |-> <<>>]
    /\ UNCHANGED <<kin, kpre>>
    /\ UNCHANGED storeVars

\* a faulty iteration that breaks on n == 0 only: the quotient of a
\* negative number stays at -1.  C28_PackIntTerminates fails with it.
PackIter_NoSignBreak ==
    /\ kfn = "pack_int_loop"
    /\ Len(kout.key) < MaxSymbols
    /\ LET n == kgen[1] \div _BASE
           r == kgen[1] % _BASE
           s == Append(kout.key, _ALPHABET[r + 1])
       IN  IF n = 0
           THEN /\ kfn' = "pack_int"
                /\ kgen' = <<>>
                /\ kout' = [exc |-> FALSE, key |-> Reverse(s)]
           ELSE /\ kfn' = kfn
                /\ kgen' = <<n>>
                /\ kout' = [exc |-> FALSE, key |-> s]
    /\ UNCHANGED <<kin, kpre>>
    /\ UNCHANGED storeVars

\* one iteration of the while loop: n, r = divmod(n, _BASE), the symbol of
\* r is appended, and the loop breaks on n == 0 or, after appending '-',
\* on n == -1; after the break ''.join(reversed(s)) is returned
\* (intpacker.py:16-24).  \div and % round as divmod does.
PackIter ==
    /\ kfn = "pack_int_loop"
    /\ Len(kout.key) < MaxSymbols
    /\ LET n == kgen[1] \div _BASE
           r == kgen[1] % _BASE
           s == Append(kout.key, _ALPHABET[r + 1])
       IN  IF n = 0
           THEN /\ kfn' = "pack_int"
                /\ kgen' = <<>>
                /\ kout' = [exc |-> FALSE, key |-> Reverse(s)]
           ELSE IF n = -1
           THEN /\ kfn' = "pack_int"
                /\ kgen' = <<>>
                /\ kout' = [exc |-> FALSE, key |-> Reverse(Append(s, 45))]
           ELSE /\ kfn' = kfn
                /\ kgen' = <<n>>
                /\ kout' = [exc |-> FALSE, key |-> s]
    /\ UNCHANGED <<kin, kpre>>
    /\ UNCHANGED storeVars

PackLoopNext ==
    \/ PackEnter
    \/ PackIter

\* the interpreter keeps running the loop: a step that can be taken is
\* taken
PackLoopSpec == PackInit /\ [][PackLoopNext]_vars /\ WF_vars(PackLoopNext)

(***************************************************************************)
(* Properties of the callers' operations.                                  *)
(***************************************************************************)
\* caller p is about to return from op
Returning(p, op) == pc[p] = "ret" /\ loc[p].op = op /\ ~loc[p].exc

\* what the producer of caller p's call returns now
Current(p) == Produce(loc[p].f, loc[p].args, world)

\* C1: under Spec (one caller, every operation run to its end), a call
\* with arguments A that begins when an earlier call with the same
\* arguments has stored a non-None result, and no delete_cache of A, no
\* invalidate_namespace of its namespace and no eviction of its entry or
\* of its generation counter has happened since, returns that stored
\* result without invoking the producer.
C1_HitReturnsStored ==
    \A p \in Procs :
        (Returning(p, "call") /\ loc[p].expect.ok)
            => (~loc[p].invoked /\ loc[p].val = loc[p].expect.val)

\* C1 witness: a call returns the stored result although the producer
\* would now return a different value.
C1_Witness ==
    \E p \in Procs :
        /\ Returning(p, "call") /\ loc[p].expect.ok /\ ~loc[p].invoked
        /\ loc[p].val = loc[p].expect.val
        /\ loc[p].val # Current(p)

\* C2: under Spec, delete_cache called with the arguments that populated
\* an entry derives the key the entry was stored under and leaves the store
\* without it, and the next call with those arguments invokes the
\* producer and returns its current result; with and without a namespace.
C2_DeleteThenRecompute ==
    \A p \in Procs :
        /\ (Returning(p, "delete") /\ loc[p].expect.ok)
              => (loc[p].key = loc[p].expect.key
                  /\ loc[p].key \notin DOMAIN store)
        /\ (Returning(p, "call") /\ loc[p].afterDelete)
              => (loc[p].invoked /\ loc[p].val = Current(p))

\* C2 witness: after delete_cache of a namespaced producer's entry the
\* next call has invoked the producer and returns a result that differs
\* from the one that was stored before.
C2_Witness ==
    \E p \in Procs :
        /\ Returning(p, "call") /\ loc[p].afterDelete /\ loc[p].invoked
        /\ loc[p].ns # <<>>
        /\ loc[p].val = Current(p)
        /\ loc[p].val # Produce(loc[p].f, loc[p].args, 0)

\* C3: under Spec, a producer memoized under a namespace returns its
\* cached result as long as the namespace is not invalidated (and nothing
\* is deleted or evicted), and after one invalidate_namespace the next call
\* of every producer of the namespace whose result was cached invokes the
\* producer and returns the fresh result.
C3_NamespaceInvalidation ==
    \A p \in Procs :
        /\ (Returning(p, "call") /\ loc[p].ns # <<>> /\ loc[p].expect.ok)
              => (~loc[p].invoked /\ loc[p].val = loc[p].expect.val)
        /\ (Returning(p, "call") /\ loc[p].afterInval)
              => (loc[p].invoked /\ loc[p].val = Current(p))

\* C3 witness: after one invalidation of 'foospace' both f and g have been
\* recomputed: g is returning its fresh result and f's has been stored
\* under the generation the invalidation produced.
C3_Witness ==
    \E p \in Procs :
        /\ Returning(p, "call") /\ loc[p].f = "g"
        /\ loc[p].afterInval /\ loc[p].invoked
        /\ lastInval[loc[p].ns] = loc[p].ns_key
        /\ LET sigF == <<"f", <<IntObj(4)>>>>
           IN  /\ hist[sigF].memo.ok
               /\ ~hist[sigF].invalidated
               /\ hist[sigF].memo.key = EntryKey(sigF, <<loc[p].ns_key>>).key
               /\ hist[sigF].memo.val # Produce("f", sigF[2], 0)

\* C4: in every interleaving of memoized calls and invalidate_namespace
\* calls on one namespace (ConcSpec: the store evicts nothing), a call that
\* begins after an invalidate_namespace has incremented the counter never
\* returns a cached value written under a generation older than the one
\* that increment produced.  The generation a cached value was written
\* under is the one packed into its key, which is the one the reader read.
C4_NoOlderGeneration ==
    \A p \in Procs :
        (Returning(p, "call") /\ loc[p].ns # <<>> /\ ~loc[p].invoked)
            => loc[p].ns_key >= loc[p].minGen

\* C5: in every interleaving, no lazy seed is written over a generation
\* counter that is present in the store.
C5_SeedNeverOverwrites == overwrites = 0

\* C6: under Spec, invalidate_namespace on a namespace whose counter is
\* absent raises nothing and leaves the counter absent; and a memoized
\* access to a namespace that found no counter has seeded it: once its key
\* is derived the counter is present and holds the generation it used.
C6_InvalidateAbsent ==
    \A p \in Procs :
        /\ (pc[p] = "ret" /\ loc[p].op = "inval" /\ loc[p].absent)
              => (~loc[p].exc /\ loc[p].ns \notin DOMAIN store)
        /\ (pc[p] \in {"get", "func", "set", "delete", "ret"}
                /\ loc[p].op \in {"call", "delete"} /\ loc[p].seeded)
              => (loc[p].ns \in DOMAIN store
                  /\ store[loc[p].ns] = IntObj(loc[p].ns_key))

\* C6 witness: invalidate_namespace returns having found no counter.
C6_Witness ==
    \E p \in Procs :
        /\ pc[p] = "ret" /\ loc[p].op = "inval" /\ loc[p].absent
        /\ ~loc[p].exc /\ loc[p].ns \notin DOMAIN store

\* the store keys of the generation counters
CounterKeys == {NamespaceKeys[n].key : n \in Namespaces}

\* C7: in every interleaving, while a generation counter stays in the
\* store no step decreases or resets it: the increment of
\* invalidate_namespace adds exactly 1 and every other step of a memoized
\* call, delete_cache or invalidate_namespace leaves it unchanged.
C7_CounterNeverReset ==
    [][\A k \in CounterKeys :
          (k \in DOMAIN store /\ k \in DOMAIN store')
              => \/ store'[k] = store[k]
                 \/ /\ store'[k] = IntObj(store[k].n + 1)
                    /\ \E p \in Procs :
                          pc[p] = "incr" /\ pc'[p] = "ret" /\ loc[p].ns = k]_vars

\* C14: a call of a producer with a negative resolved timeout raises
\* before any store access: it never stands after the get of the namespace
\* counter, after the get of the entry or after the producer ran, and it
\* ends raising, on hits as well as on misses, with nothing seeded and the
\* producer not invoked.
C14_NegativeTimeoutRaisesFirst ==
    \A p \in Procs :
        (loc[p].op = "call"
            /\ TimeoutIsNegative(ProducerOf(loc[p].f).timeout))
            => /\ pc[p] \notin {"ns_seed", "ns_set", "func", "set"}
               /\ pc[p] = "ret"
                     => (loc[p].exc /\ ~loc[p].invoked /\ ~loc[p].seeded)

\* the key spec of caller p's producer holds a callable
HasCallableKey(p) ==
    /\ loc[p].op = "call"
    /\ CallableCalls(ProducerOf(loc[p].f).key) > 0

\* C15: under UsageSpec, in a call of a producer whose key spec holds a
\* callable, each callable element is invoked once, the key is made of
\* the value it returns for this call's arguments, the key differs from
\* the key of every entry cached for other arguments, and a call for which
\* nothing is cached invokes the producer.
C15_CallableKeyResolved ==
    \A p \in Procs :
        (HasCallableKey(p) /\ pc[p] \in {"get", "func", "set", "ret"})
            => /\ loc[p].called
                    = Len(SelectSeq(ProducerOf(loc[p].f).key.l, IsCallable))
               /\ loc[p].key
                    = make_key(ListObj(<<TextObj(TestLambdaKeys),
                                         loc[p].args[1]>>), DjangoPrefix).key
               /\ \A sig \in DOMAIN hist :
                     (sig[1] = loc[p].f /\ sig[2] # loc[p].args
                         /\ hist[sig].memo.ok)
                         => hist[sig].memo.key # loc[p].key
               /\ (pc[p] = "ret" /\ ~loc[p].expect.ok) => loc[p].invoked

\* C15 witness: get_age is recomputed for 'john' while its result for
\* 'bob' is cached under another key.
C15_Witness ==
    \E p \in Procs :
        /\ HasCallableKey(p) /\ pc[p] = "ret" /\ loc[p].args = <<John>>
        /\ loc[p].invoked /\ loc[p].called = 1
        /\ hist[<<"k", <<Bob>>>>].memo.ok
        /\ hist[<<"k", <<Bob>>>>].memo.key \in DOMAIN store
        /\ hist[<<"k", <<Bob>>>>].memo.key # loc[p].key

\* C17: under UsageSpec, a call that follows a call whose result was None
\* (nothing deleted or invalidated in between) invokes the producer again,
\* and a call that follows one whose result was falsy but not None (0, '',
\* False) returns that result without invoking the producer.
C17_HitTestIsNotNone ==
    \A p \in Procs :
        Returning(p, "call")
            => /\ (loc[p].expect.key # <<>> /\ loc[p].expect.val.t = "none")
                     => (loc[p].invoked /\ loc[p].val = Current(p))
               /\ (loc[p].expect.ok /\ ~Truthy(loc[p].expect.val))
                     => (~loc[p].invoked /\ loc[p].val = loc[p].expect.val)

\* C17 witness: the cached False is returned although the producer would
\* now return '', after the producer n has returned None.
C17_Witness ==
    \E p \in Procs :
        /\ Returning(p, "call") /\ loc[p].expect.ok
        /\ loc[p].val = BoolObj(FALSE) /\ ~loc[p].invoked
        /\ loc[p].val # Current(p)
        /\ hist[<<"n", <<>>>>].memo.key # <<>>
        /\ hist[<<"n", <<>>>>].memo.val.t = "none"

\* C20: under UsageSpec, a producer memoized under a namespace value other
\* than None (0 and '' included, given directly or returned by a namespace
\* function) returns its cached result until invalidate_namespace is
\* called with that value, and its first call afterwards invokes the
\* producer and returns the fresh result.
C20_AnyNamespaceInvalidates ==
    \A p \in Procs :
        (Returning(p, "call")
            /\ NamespaceOf(loc[p].f, loc[p].args).t # "none")
            => /\ loc[p].expect.ok
                     => (~loc[p].invoked /\ loc[p].val = loc[p].expect.val)
               /\ loc[p].afterInval
                     => (loc[p].invoked /\ loc[p].val = Current(p))

\* C18: every response cached_view has put into the store answered a GET
\* or HEAD request with status 200 and with no 'no-cache' in its
\* Cache-Control and Pragma headers.
C18_OnlyCacheableStored ==
    \A sig \in DOMAIN hist :
        (sig[1] = "v" /\ hist[sig].memo.ok
            /\ hist[sig].memo.key \in DOMAIN store)
            => /\ sig[2][1].s \in {MethodGet, MethodHead}
               /\ store[hist[sig].memo.key].n = 200
               /\ store[hist[sig].memo.key].l = <<BoolObj(FALSE), BoolObj(FALSE)>>

\* C19: under ViewSpec, delete_cache called with the arguments of the
\* request that populated an entry derives the key the entry was stored
\* under and leaves the store without it, and the next identical request
\* invokes the view again.
C19_ViewDeleteRemovesEntry ==
    \A p \in Procs :
        /\ (pc[p] = "ret" /\ loc[p].op = "delete" /\ loc[p].f = "v"
                /\ ~loc[p].exc /\ loc[p].expect.ok)
              => (loc[p].key = loc[p].expect.key
                  /\ loc[p].expect.key \notin DOMAIN store)
        /\ (pc[p] = "ret" /\ loc[p].op = "view" /\ loc[p].afterDelete)
              => loc[p].invoked

\* the store key invalidate_namespace of caller p is working on, before or
\* after the step
InvalKey(p) == IF loc[p].op = "inval" THEN loc[p].ns ELSE loc'[p].ns

ProducerRaised(p) ==
    /\ pc[p] = "ret" /\ loc[p].op = "call"
    /\ loc[p].invoked /\ Current(p).t = "raised"

\* C25: under UsageSpec, when the producer raises during a call that
\* missed, the call ends raising and nothing is stored under the entry's
\* key, and the next call with those arguments invokes the producer again
\* and, when the producer returns, returns its fresh result.
C25_RaiseStoresNothing ==
    \A p \in Procs :
        /\ ProducerRaised(p)
              => (loc[p].exc /\ loc[p].key \notin DOMAIN store)
        /\ (pc[p] = "ret" /\ loc[p].op = "call" /\ loc[p].afterRaise)
              => /\ loc[p].invoked
                 /\ ~loc[p].exc => loc[p].val = Current(p)

\* C25 witness: the namespaced producer y raised in an earlier call, and
\* the call that follows has invoked it again and returns its result.
C25_Witness ==
    \E p \in Procs :
        /\ Returning(p, "call") /\ loc[p].f = "y" /\ loc[p].afterRaise
        /\ loc[p].invoked /\ loc[p].val = Current(p)
        /\ loc[p].ns \in DOMAIN store

\* C27: no store.set of a producer's result and no cache.delete of
\* delete_cache is aimed at a store key that holds a namespace's
\* generation counter, and no producer's result is stored under the key of
\* a namespace's counter.
C27_CounterKeysApart ==
    /\ \A p \in Procs :
          (loc[p].op \in {"call", "delete"} /\ pc[p] \in {"set", "delete"})
              => loc[p].key \notin DOMAIN lastInval \cap DOMAIN store
    /\ \A sig \in DOMAIN hist :
          hist[sig].memo.ok => hist[sig].memo.key \notin DOMAIN lastInval

\* C26: under UserViewSpec, the decorator of a keyed view holds the key
\* list it was given, whatever requests were served, and every cacheable
\* request of an authenticated user derives the key of that list followed
\* by the user's id.
C26_KeySpecStable ==
    /\ \A id \in DOMAIN keyspec : keyspec[id] = ProducerOf(id).key
    /\ \A p \in Procs :
          (loc[p].op = "view" /\ AddUserToKey(loc[p].f)
              /\ pc[p] \in {"get", "func", "set"}
              /\ loc[p].args[1].l # <<>>)
              => loc[p].key
                    = make_key(ListObj(ProducerOf(loc[p].f).key.l
                                          \o loc[p].args[1].l),
                               DjangoPrefix).key

(***************************************************************************)
(* Properties of key derivation.                                           *)
(***************************************************************************)
\* every byte of s is a hexadecimal digit
IsHex(s) == \A i \in 1..Len(s) : s[i] \in (48..57) \cup (97..102)

\* C9: for every key input and every backend prefix shorter than
\* MAX_KEY_LENGTH, make_key returns a key with
\* len(prefix) + len(key) <= MAX_KEY_LENGTH; when the joined form does not
\* fit it returns hexadecimal digits of a digest, cut to at most
\* MAX_KEY_LENGTH - len(prefix) bytes, and otherwise the joined form.
C9_KeyLengthBounded ==
    (kfn = "make_key" /\ Len(kpre) < MAX_KEY_LENGTH)
        => /\ ~kout.exc
           /\ Len(kpre) + Len(kout.key) <= MAX_KEY_LENGTH
           /\ IF Len(kpre) + Len(JoinedKey(kin)) > MAX_KEY_LENGTH
              THEN /\ IsHex(kout.key)
                   /\ Len(kout.key) \in {MD5_HEX_LEN, MAX_KEY_LENGTH - Len(kpre)}
                   /\ kout.key # JoinedKey(kin)
              ELSE kout.key = JoinedKey(kin)

\* C9 witness: the list of LongAtoms integers was given under a prefix so
\* long that the digest itself had to be cut.
C9_Witness ==
    /\ kfn = "make_key"
    /\ Len(kin.l) = LongAtoms
    /\ Len(JoinedKey(kin)) > MAX_KEY_LENGTH
    /\ Len(kpre) < MAX_KEY_LENGTH
    /\ Len(kout.key) < MD5_HEX_LEN
    /\ Len(kpre) + Len(kout.key) = MAX_KEY_LENGTH

\* C10: no key returned by make_key or _make_key holds a byte in
\* 0x00-0x20, 0x7f or 0x80-0x9f, for any input and any generation.
C10_NoControlBytes ==
    (kfn # "none" /\ ~kout.exc)
        => \A i \in 1..Len(kout.key) :
              ~(kout.key[i] <= 32 \/ kout.key[i] = 127
                    \/ kout.key[i] \in 128..159)

\* C10 witness: _make_key returned a dot-joined key with a packed
\* generation for the text whose UTF-8 form holds 0x80, 0x85, 0x82, 0x7f.
C10_Witness ==
    /\ kfn = "_make_key"
    /\ kin = NonAscii
    /\ kgen # <<>>
    /\ ~kout.exc
    /\ Len(kout.key) > Len(pack_int(kgen[1]))
    /\ ~IsHex(kout.key)

\* the joined form of obj fits under the prefix: make_key takes the
\* readable dot-joined path
Readable(obj, prefix) == Len(prefix) + Len(JoinedKey(obj)) <= MAX_KEY_LENGTH

\* C11: two key inputs whose flattened atom sequences differ derive
\* different keys whenever both take the readable dot-joined path: the key
\* make_key returned for one readable input is returned for no other
\* readable input with different atoms.
C11_CollisionsOnlyWhenHashed ==
    (kfn = "make_key" /\ ~kout.exc /\ Readable(kin, kpre))
        => \A other \in KeyInputs :
              (Readable(other, kpre)
                  /\ _key_arg_iterator(other, 1) # _key_arg_iterator(kin, 1))
                  => make_key(other, kpre).key # kout.key

\* C13: whenever the backend prefix alone is MAX_KEY_LENGTH bytes or more,
\* make_key raises, for every input; it returns no key.
C13_LongPrefixRaises ==
    (kfn = "make_key" /\ Len(kpre) >= MAX_KEY_LENGTH) => kout.exc

\* C16: when a namespace is given and the key is readable, the key
\* _make_key returns is the packed generation, ':' and the dot-joined key
\* of the input.
C16_GenerationPrepended ==
    (kfn = "_make_key" /\ kgen # <<>> /\ ~kout.exc
        /\ Len(kpre) + Len(pack_int(kgen[1])) + 1 + Len(JoinedKey(kin))
              <= MAX_KEY_LENGTH)
        => kout.key = pack_int(kgen[1]) \o <<58>> \o JoinedKey(kin)

\* C12: unpack_int(pack_int(n)) = n for every integer n, 0, negative
\* integers and large magnitudes included: unpack_int raises nothing and
\* returns n.
C12_RoundTrip ==
    kfn = "unpack_int" => (~kout.exc /\ kgen = <<kin.n>>)

\* a and b are sequences of the same elements but for the values of
\* mappings among them, whose keys are the same
DifferInMappingValue(a, b) ==
    /\ a.t = "list" /\ b.t = "list" /\ Len(a.l) = Len(b.l)
    /\ a # b
    /\ \A i \in 1..Len(a.l) :
          \/ a.l[i] = b.l[i]
          \/ /\ a.l[i].t = "dict" /\ b.l[i].t = "dict"
             /\ Len(a.l[i].d) = Len(b.l[i].d)
             /\ \A j \in 1..Len(a.l[i].d) : a.l[i].d[j][1] = b.l[i].d[j][1]

\* C22: when a key input is a sequence of atoms of which one or more are
\* mappings and the key is readable, the key is the dot-joined form of its
\* elements, a mapping giving its 'key:value' pairs joined by ',', and it
\* differs from the key of every input that differs in a value of such a
\* mapping only.
C22_MappingElementsKeyed ==
    (kfn = "make_key" /\ ~kout.exc /\ Readable(kin, kpre)
        /\ kin.t = "list"
        /\ (\A i \in 1..Len(kin.l) : kin.l[i].t # "list")
        /\ (\E j \in 1..Len(kin.l) : kin.l[j].t = "dict"))
        => /\ kout.key = Join(<<46>>, [i \in 1..Len(kin.l) |->
                                          _format_key_arg(kin.l[i])])
           /\ \A other \in KeyInputs :
                 (DifferInMappingValue(kin, other) /\ Readable(other, kpre))
                     => make_key(other, kpre).key # kout.key

\* neither obj nor an element of obj is a mapping
NoShallowMapping(obj) ==
    /\ obj.t # "dict"
    /\ obj.t = "list" => \A i \in 1..Len(obj.l) : obj.l[i].t # "dict"

\* the elements of the top-level sequence and, in their place, the
\* elements of the sequences that are elements of it; an input that is no
\* sequence alone
TwoLevels(obj) ==
    IF obj.t = "list"
    THEN Concat([i \in 1..Len(obj.l) |->
                    IF obj.l[i].t = "list" THEN obj.l[i].l ELSE <<obj.l[i]>>])
    ELSE <<obj>>

SymbolAt(n) ==
    IF n < 26 THEN 65 + n
    ELSE IF n < 52 THEN 97 + (n - 26)
    ELSE IF n < 62 THEN 48 + (n - 52)
    ELSE IF n = 62 THEN 95
    ELSE 61

\* C21: pack_int(0) is 'A', and pack_int(n) for 0 <= n < 64 is the one
\* symbol at index n of the alphabet.
C21_SmallIntsOneSymbol ==
    (kfn = "pack_int" /\ kin.n >= 0 /\ kin.n < _BASE)
        => /\ kout.key = <<SymbolAt(kin.n)>>
           /\ kin.n = 0 => kout.key = <<65>>

\* C21 witness: pack_int(0) has returned 'A'.
C21_Witness ==
    kfn = "pack_int" /\ kin.n = 0 /\ kout.key = <<65>>

\* every byte of s is a symbol of the alphabet or the sign marker '-'
IsPacked(s) ==
    \A i \in 1..Len(s) :
        s[i] \in (65..90) \cup (97..122) \cup (48..57) \cup {95, 61, 45}

\* C28: under PackLoopSpec, for every integer n, positive, zero or
\* negative, the loop of pack_int comes to its break and pack_int returns
\* a non-empty string of alphabet symbols, with the sign marker '-' in
\* front exactly when n is negative.
C28_PackIntTerminates ==
    <>(/\ kfn = "pack_int"
       /\ ~kout.exc
       /\ Len(kout.key) >= 1
       /\ IsPacked(kout.key)
       /\ (kout.key[1] = 45) <=> (kin.n < 0))

\* C28 witness: the loop has ended on the quotient -1 for a negative
\* number of several symbols.
C28_Witness ==
    /\ kfn = "pack_int"
    /\ kin.n < -_BASE
    /\ kout.key[1] = 45
    /\ Len(kout.key) >= 3

=============================================================================
